---- MODULE Spec2Model ----
(***************************************************************************)
(* Model of the resilient price-fetching hook useCryptoPriceV2            *)
(* (src/src/hooks/useCryptoPriceV2.js): the retry helper, the relay race,  *)
(* the provider chain, the cache store and the aggregation cycle.          *)
(*                                                                         *)
(* Encodings.  A JS string that the code compares or sorts (a month key)   *)
(* is a sequence of character codes ("2024-01" is <<50,48,50,52,45,48,49>>)*)
(* so that lexicographic order is computed, not assumed.  JS null is the   *)
(* record Null for object-valued fields and the string "null" for          *)
(* string-valued ones.  NaN is the number NaN below.  A timestamp of the   *)
(* historical feed is the integer yyyymmdd of its local calendar date.     *)
(* Times are in milliseconds.                                              *)
(***************************************************************************)
EXTENDS Integers, Sequences, FiniteSets, TLC

\* ------------------------------------------------------------------------
\* Program constants
\* ------------------------------------------------------------------------
CACHE_TTL == 60000
REQUEST_TIMEOUT == 5000
MAX_RETRIES == 3
\* Mutant of RETRY_DELAYS: the delays grow by a constant step.
RETRY_DELAYS_Linear == <<1000, 2000, 3000>>

RETRY_DELAYS == <<1000, 2000, 4000>>

\* The three relays of CORS_PROXIES and the five providers of the chain.
CORS_PROXIES == <<"corsproxy", "allorigins", "codetabs">>
PROVIDERS == <<"coincap", "binance", "kraken", "cryptocompare", "coingecko">>

Null == [null |-> TRUE]
\* The value Math.round(parseFloat(x)) has when x is not a number.
NaN == -1

\* ------------------------------------------------------------------------
\* Strings as character-code sequences
\* ------------------------------------------------------------------------
\* String(n) for a non-negative integer n.
RECURSIVE String(_)
String(n) == IF n < 10 THEN <<48 + n>> ELSE String(n \div 10) \o <<48 + (n % 10)>>

\* s.padStart(len, ch)
RECURSIVE padStart(_, _, _)
padStart(s, len, ch) == IF Len(s) >= len THEN s ELSE padStart(<<ch>> \o s, len, ch)

\* a.localeCompare(b) on strings of digits and hyphens: -1, 0 or 1.
RECURSIVE localeCompare(_, _)
localeCompare(a, b) ==
  IF a = <<>> /\ b = <<>> THEN 0
  ELSE IF a = <<>> THEN -1
  ELSE IF b = <<>> THEN 1
  ELSE IF Head(a) < Head(b) THEN -1
  ELSE IF Head(a) > Head(b) THEN 1
  ELSE localeCompare(Tail(a), Tail(b))

\* arr.sort((a, b) => a.month.localeCompare(b.month)): the stable sort, each
\* element placed after the elements that compare smaller and after the equal
\* ones that precede it in arr.
Place(arr, rank) ==
  LET r == rank \o <<>>
  IN [k \in 1..Len(arr) |-> arr[CHOOSE i \in 1..Len(arr) : r[i] = k]]

\* Mutant of SortByMonth: the array is left in insertion order.
SortByMonth_None(arr) == arr

\* The sort: each element at the place its rank gives.
SortByMonth(arr) ==
  Place(arr, [i \in 1..Len(arr) |->
                Cardinality({j \in 1..Len(arr) :
                   \/ localeCompare(arr[j].month, arr[i].month) < 0
                   \/ localeCompare(arr[j].month, arr[i].month) = 0 /\ j <= i})])

\* Mutant of MathRound: the mean is truncated.
MathRound_Floor(sum, count) == sum \div count

\* Math.round(sum / count) for sum >= 0 and count > 0 (halves round up).
MathRound(sum, count) == (2 * sum + count) \div (2 * count)

\* ------------------------------------------------------------------------
\* The static fallback table
\* ------------------------------------------------------------------------
\* One property 'yyyy-mm': price of the object literal FALLBACK_PRICES.
E(y, m, p) ==
  [month |-> <<48 + (y \div 1000), 48 + ((y \div 100) % 10), 48 + ((y \div 10) % 10),
               48 + (y % 10), 45, 48 + (m \div 10), 48 + (m % 10)>>,
   price |-> p]

\* The properties of FALLBACK_PRICES in the order of the literal, which is
\* the order Object.entries and Object.keys enumerate them in.
FALLBACK_PRICES == <<
  E(2019, 1, 3600), E(2019, 2, 3800), E(2019, 3, 4000), E(2019, 4, 5200),
  E(2019, 5, 7500), E(2019, 6, 10800), E(2019, 7, 10500), E(2019, 8, 10200),
  E(2019, 9, 8500), E(2019, 10, 8300), E(2019, 11, 7500), E(2019, 12, 7200),
  E(2020, 1, 8500), E(2020, 2, 9500), E(2020, 3, 6500), E(2020, 4, 7500),
  E(2020, 5, 9000), E(2020, 6, 9300), E(2020, 7, 9800), E(2020, 8, 11500),
  E(2020, 9, 10700), E(2020, 10, 13000), E(2020, 11, 17500), E(2020, 12, 24000),
  E(2021, 1, 34000), E(2021, 2, 46000), E(2021, 3, 55000), E(2021, 4, 57000),
  E(2021, 5, 40000), E(2021, 6, 35000), E(2021, 7, 33000), E(2021, 8, 44000),
  E(2021, 9, 45000), E(2021, 10, 55000), E(2021, 11, 60000), E(2021, 12, 48000),
  E(2022, 1, 41500), E(2022, 2, 39500), E(2022, 3, 44000), E(2022, 4, 40000),
  E(2022, 5, 31500), E(2022, 6, 21500), E(2022, 7, 22500), E(2022, 8, 21500),
  E(2022, 9, 19500), E(2022, 10, 20500), E(2022, 11, 17000), E(2022, 12, 16800),
  E(2023, 1, 21500), E(2023, 2, 23500), E(2023, 3, 28000), E(2023, 4, 29500),
  E(2023, 5, 27500), E(2023, 6, 30500), E(2023, 7, 29500), E(2023, 8, 26000),
  E(2023, 9, 27000), E(2023, 10, 34500), E(2023, 11, 37500), E(2023, 12, 42500),
  E(2024, 1, 43000), E(2024, 2, 52000), E(2024, 3, 70000), E(2024, 4, 65000),
  E(2024, 5, 67000), E(2024, 6, 62000), E(2024, 7, 66000), E(2024, 8, 59000),
  E(2024, 9, 63000), E(2024, 10, 68000), E(2024, 11, 90000), E(2024, 12, 97000),
  E(2025, 1, 102000), E(2025, 2, 96000), E(2025, 3, 82000), E(2025, 4, 84000),
  E(2025, 5, 103000), E(2025, 6, 106000), E(2025, 7, 97000), E(2025, 8, 59000),
  E(2025, 9, 63000), E(2025, 10, 69000), E(2025, 11, 96000), E(2025, 12, 94000),
  E(2026, 1, 95000),
  E(2026, 2, 71000)
>>

\* FALLBACK_PRICES[key]
FallbackPriceOf(key) ==
  FALLBACK_PRICES[CHOOSE i \in 1..Len(FALLBACK_PRICES) : FALLBACK_PRICES[i].month = key].price

\* Object.entries(FALLBACK_PRICES).map(...).sort(by month)
FALLBACK_ARRAY == SortByMonth(FALLBACK_PRICES)

\* Object.keys(FALLBACK_PRICES).sort().pop()
LatestFallbackMonth ==
  LET keys == SortByMonth(FALLBACK_PRICES) IN keys[Len(keys)].month

\* ------------------------------------------------------------------------
\* Inputs: what the network can answer
\* ------------------------------------------------------------------------
\* Valid prices a provider can report.
LivePrices == {64000}

\* The price field of an adapter's result: Math.round(parseFloat(x)) is a
\* valid price, 0, or NaN.
ProviderPrices == LivePrices \cup {0, NaN}

\* One sample [timestamp, price] of the historical payload.
S(ts, p) == [t |-> ts, p |-> p]

\* Historical payloads (data.prices) the relays can deliver in the controller
\* specification.  The last one holds an element that is no [timestamp, price]
\* pair.
HistoryPayloads == {
  <<S(20240105, 43000), S(20240120, 43400), S(20240210, 52000)>>,
  <<S(20240210, 52000), S(20240105, 43000), S(20240120, 43401)>>,
  <<S(20240105, 43000), Null>> }

\* ------------------------------------------------------------------------
\* Monthly bucketing (fetchPriceData, the historical branch)
\* ------------------------------------------------------------------------
\* date.getFullYear() and date.getMonth() of new Date(timestamp).
getFullYear(ts) == ts \div 10000
getMonth(ts) == ((ts \div 100) % 100) - 1

\* `${date.getFullYear()}-${String(date.getMonth() + 1).padStart(2, '0')}`
monthKey(ts) == String(getFullYear(ts)) \o <<45>> \o padStart(String(getMonth(ts) + 1), 2, 48)

\* One iteration of historyData.prices.forEach: monthlyPrices is the object
\* as the sequence of its properties in insertion order.
AddSample(monthlyPrices, sample) ==
  LET key == monthKey(sample.t)
      hit == {i \in 1..Len(monthlyPrices) : monthlyPrices[i].month = key}
  IN IF hit = {}
       THEN Append(monthlyPrices, [month |-> key, sum |-> sample.p, count |-> 1])
       ELSE [i \in 1..Len(monthlyPrices) |->
               IF i \in hit
                 THEN [month |-> key,
                       sum   |-> monthlyPrices[i].sum + sample.p,
                       count |-> monthlyPrices[i].count + 1]
                 ELSE monthlyPrices[i]]

\* The whole forEach.
RECURSIVE Accumulate(_, _)
Accumulate(monthlyPrices, prices) ==
  IF prices = <<>> THEN monthlyPrices
  ELSE Accumulate(AddSample(monthlyPrices, Head(prices)), Tail(prices))

\* Object.entries(monthlyPrices).map(...).sort(...)
ToProcessed(monthlyPrices) ==
  SortByMonth([i \in 1..Len(monthlyPrices) |->
                 [month |-> monthlyPrices[i].month,
                  price |-> MathRound(monthlyPrices[i].sum, monthlyPrices[i].count)]])

\* The forEach, then the map and the sort.
Bucketed(prices) == ToProcessed(Accumulate(<<>>, prices))

\* Bucketed, tabulated for the payloads of HistoryPayloads that can be
\* bucketed, so that it is computed once for each.
BucketedPayloads ==
  [prices \in {p \in HistoryPayloads : \A i \in 1..Len(p) : p[i] # Null} |-> Bucketed(prices)]

ProcessHistory(prices) ==
  IF prices \in DOMAIN BucketedPayloads THEN BucketedPayloads[prices] ELSE Bucketed(prices)

\* The destructuring ([timestamp, price]) of an element that is not iterable
\* throws a TypeError.
BucketingThrows(prices) == \E i \in 1..Len(prices) : prices[i] = Null

\* ------------------------------------------------------------------------
\* Cache store
\* ------------------------------------------------------------------------
\* The item under CACHE_KEY when it is not valid JSON.
Corrupt == [corrupt |-> TRUE]

\* What JSON.stringify writes for a numeric field that holds NaN: null.
NullNum == -2

\* JSON.parse(JSON.stringify(currentPrice)): NaN becomes null.
JSONRoundTrip(cp) ==
  IF cp.price = NaN THEN [cp EXCEPT !.price = NullNum] ELSE cp

\* Mutant of loadFromCache: the age in ms is compared with the TTL in seconds.
loadFromCache_Seconds(item, clock) ==
  IF item = Null \/ item = Corrupt THEN Null
  ELSE IF clock - item.timestamp < CACHE_TTL \div 1000 THEN item.data
  ELSE Null

\* Mutant of loadFromCache: a snapshot whose age equals the TTL is still used.
loadFromCache_Inclusive(item, clock) ==
  IF item = Null \/ item = Corrupt THEN Null
  ELSE IF clock - item.timestamp <= CACHE_TTL THEN item.data
  ELSE Null

\* loadFromCache(): item is the stored item (Null when there is none).
loadFromCache(item, clock) ==
  IF item = Null \/ item = Corrupt THEN Null
  ELSE IF clock - item.timestamp < CACHE_TTL THEN item.data
  ELSE Null

\* saveToCache(priceData, currentPrice): the item stored afterwards, given
\* the item stored before and whether localStorage.setItem throws.
saveToCache(item, pd, cp, clock, setItemThrows) ==
  IF setItemThrows THEN item
  ELSE [data |-> [priceData |-> pd, currentPrice |-> JSONRoundTrip(cp)],
        timestamp |-> clock]

\* ------------------------------------------------------------------------
\* Bounds
\* ------------------------------------------------------------------------
\* Aggregation cycles one controller instance may start.
MaxCycles == 2
\* Steps of the clock.
MaxTicks == 1
\* One step of the clock, and the time at which the page loads.
TickMs == CACHE_TTL \div 2
StartNow == CACHE_TTL

\* ------------------------------------------------------------------------
\* State
\* ------------------------------------------------------------------------
VARIABLES
  \* what the hook returns (useState)
  priceData, currentPrice, loading, error, lastUpdated, isLive, dataSource,
  \* the reentrancy guard (useRef)
  isFetching,
  \* localStorage[CACHE_KEY] and Date.now()
  storage, now,
  \* "unmounted" (before the effects ran), "hydrated" (the first effect ran),
  \* "mounted" (interval armed), "torn" (interval cleared)
  phase,
  \* fetchCurrentPrice of the running cycle: "idle", "fetching" (a request to
  \* PROVIDERS[provider] is out), "sleeping" (backoff), then the settlement of
  \* its promise: "fulfilled" (priceResult is the value) or "rejected"
  priceStatus, provider, attempt, priceResult,
  \* the providers a request was sent to in this cycle
  contacted,
  \* fetchHistoricalData of the running cycle: "idle", "pending", "settled"
  histStatus, histResult,
  \* bodies of fetchPriceData past the guard that have not finished, cycles
  \* started, and how the last finished body ended: "none", "normal", "catch"
  inFlight, cycles, path,
  \* how the latest call of fetchPriceData in this cycle went ("none", "start",
  \* "skip"), and the latest step of fetchCurrentPrice
  lastCall, priceEvent,
  \* calls of loadFromCache so far and what the latest one returned; how the
  \* saveToCache of the last finished cycle went: "none" (not called),
  \* "stored", "failed" (setItem threw)
  cacheReads, loaded, lastSave,
  \* fetchWithRetry on its own: where the call stands ("idle", "calling",
  \* "sleeping", "returned", "thrown"), the loop counter, lastError, what the
  \* call returned or threw, and the attempts and sleeps so far
  rState, rAttempt, rLastError, rValue, rTrace,
  \* fetchWithProxyRace on its own: the three relay requests, the settlement
  \* of the Promise.any, and the order in which the relays settled
  relays, race, arrivals,
  \* monthly bucketing on its own: the payload, the samples still to visit,
  \* the accumulator and the result
  bPrices, bRest, bMonthly, bProcessed

exposed == <<priceData, currentPrice, loading, error, lastUpdated, isLive, dataSource>>
priceTask == <<priceStatus, provider, attempt, priceResult, contacted>>
histTask == <<histStatus, histResult>>
cycleVars == <<inFlight, cycles, path>>
cacheVars == <<cacheReads, loaded, lastSave>>
retryVars == <<rState, rAttempt, rLastError, rValue, rTrace>>
raceVars == <<relays, race, arrivals>>
bucketVars == <<bPrices, bRest, bMonthly, bProcessed>>
controllerVars == <<exposed, isFetching, storage, now, phase, priceTask, histTask,
                    cycleVars, lastCall, priceEvent, cacheVars, retryVars>>
vars == <<controllerVars, raceVars, bucketVars>>

\* ------------------------------------------------------------------------
\* Initial state
\* ------------------------------------------------------------------------
\* Snapshots a previous session of the page can have left in the cache.
PriorSnapshots == {
  [priceData |-> ProcessHistory(<<S(20231215, 42000), S(20240105, 43000)>>),
   currentPrice |-> [price |-> 63000, change24h |-> "2.31", source |-> "coincap"]] }

\* What localStorage can hold under CACHE_KEY when the page loads.
InitialItems ==
  {Null, Corrupt} \cup
  {[data |-> d, timestamp |-> t] : d \in PriorSnapshots, t \in {0, TickMs}}

ControllerInit ==
  /\ priceData = <<>>
  /\ currentPrice = Null
  /\ loading = TRUE
  /\ error = "null"
  /\ lastUpdated = Null
  /\ isLive = FALSE
  /\ dataSource = "null"
  /\ isFetching = FALSE
  /\ now = StartNow
  /\ phase = "unmounted"
  /\ priceStatus = "idle"
  /\ provider = 0
  /\ attempt = 0
  /\ priceResult = Null
  /\ contacted = {}
  /\ histStatus = "idle"
  /\ histResult = Null
  /\ inFlight = 0
  /\ cycles = 0
  /\ path = "none"
  /\ lastCall = "none"
  /\ priceEvent = [type |-> "none"]
  /\ cacheReads = 0
  /\ loaded = Null
  /\ lastSave = "none"
  /\ rState = "idle"
  /\ rAttempt = 0
  /\ rLastError = "undefined"
  /\ rValue = "none"
  /\ rTrace = <<>>

RaceIdle ==
  /\ relays = [i \in 1..Len(CORS_PROXIES) |-> [state |-> "idle"]]
  /\ race = [state |-> "idle"]
  /\ arrivals = <<>>

BucketIdle ==
  /\ bPrices = <<>>
  /\ bRest = <<>>
  /\ bMonthly = <<>>
  /\ bProcessed = <<>>

Init ==
  /\ ControllerInit
  /\ storage \in InitialItems
  /\ RaceIdle
  /\ BucketIdle

\* ------------------------------------------------------------------------
\* fetchPriceData: the guard and the start of a cycle
\* ------------------------------------------------------------------------
\* Mutant of FetchAlreadyInProgress: the guard is never taken.
FetchAlreadyInProgress_Off == FALSE

\* if (isFetching.current) return;
FetchAlreadyInProgress == isFetching

\* isFetching.current = true, then Promise.allSettled([fetchCurrentPrice(),
\* fetchHistoricalData()]): both run up to their first await, which sends the
\* request to CoinCap and the relay requests for the chart.
StartCycle ==
  /\ isFetching' = TRUE
  /\ priceStatus' = "fetching"
  /\ provider' = 1
  /\ attempt' = 0
  /\ priceResult' = Null
  /\ contacted' = {1}
  /\ histStatus' = "pending"
  /\ histResult' = Null
  /\ inFlight' = inFlight + 1
  /\ cycles' = cycles + 1
  /\ path' = "running"

\* A call of fetchPriceData by the mount effect, the interval or refetch.
fetchPriceData ==
  IF FetchAlreadyInProgress
    THEN /\ lastCall' = "skip"
         /\ UNCHANGED <<isFetching, priceTask, histTask, cycleVars, priceEvent>>
    ELSE /\ cycles < MaxCycles
         /\ StartCycle
         /\ lastCall' = "start"
         /\ priceEvent' = [type |-> "request"]

\* Mutant of Hydrate: setLoading(false) is left out.
Hydrate_KeepsLoading ==
  /\ phase = "unmounted"
  /\ phase' = "hydrated"
  /\ LET cached == loadFromCache(storage, now)
     IN /\ loaded' = cached
        /\ cacheReads' = cacheReads + 1
        /\ IF cached # Null
             THEN /\ priceData' = cached.priceData
                  /\ currentPrice' = cached.currentPrice
                  /\ isLive' = TRUE
                  /\ dataSource' = "cache"
                  /\ UNCHANGED <<loading, error, lastUpdated>>
             ELSE UNCHANGED exposed
  /\ UNCHANGED <<isFetching, storage, now, priceTask, histTask, cycleVars, lastCall,
                 priceEvent, lastSave, raceVars, bucketVars, retryVars>>

\* The first effect of the first render: hydration from the cache.
Hydrate ==
  /\ phase = "unmounted"
  /\ phase' = "hydrated"
  /\ LET cached == loadFromCache(storage, now)
     IN /\ loaded' = cached
        /\ cacheReads' = cacheReads + 1
        /\ IF cached # Null
             THEN /\ priceData' = cached.priceData
                  /\ currentPrice' = cached.currentPrice
                  /\ loading' = FALSE
                  /\ isLive' = TRUE
                  /\ dataSource' = "cache"
                  /\ UNCHANGED <<error, lastUpdated>>
             ELSE UNCHANGED exposed
  /\ UNCHANGED <<isFetching, storage, now, priceTask, histTask, cycleVars, lastCall,
                 priceEvent, lastSave, raceVars, bucketVars, retryVars>>

\* The other two effects of the first render, which run in the same commit:
\* the initial fetch, then setInterval.
Mount ==
  /\ phase = "hydrated"
  /\ phase' = "mounted"
  /\ fetchPriceData
  /\ UNCHANGED <<exposed, storage, now, raceVars, bucketVars, retryVars, cacheVars>>

\* Mutant of IntervalArmed: the cleanup does not clear the interval.
IntervalArmed_NeverCleared == phase \in {"mounted", "torn"}

\* The interval of setInterval exists: armed by the third effect, cleared by
\* its cleanup.
IntervalArmed == phase = "mounted"

\* The setInterval callback.
TimerTick ==
  /\ IntervalArmed
  /\ fetchPriceData
  /\ UNCHANGED <<exposed, storage, now, phase, raceVars, bucketVars, retryVars, cacheVars>>

\* The refetch function the hook returns.
Refetch ==
  /\ phase = "mounted"
  /\ fetchPriceData
  /\ UNCHANGED <<exposed, storage, now, phase, raceVars, bucketVars, retryVars, cacheVars>>

\* The cleanup of the interval effect: clearInterval.
Teardown ==
  /\ phase = "mounted"
  /\ phase' = "torn"
  /\ UNCHANGED <<exposed, isFetching, storage, now, priceTask, histTask, cycleVars,
                 lastCall, priceEvent, raceVars, bucketVars, retryVars, cacheVars>>

\* Time passes.
Tick ==
  /\ now < StartNow + MaxTicks * TickMs
  /\ now' = now + TickMs
  /\ UNCHANGED <<exposed, isFetching, storage, phase, priceTask, histTask, cycleVars,
                 lastCall, priceEvent, raceVars, bucketVars, retryVars, cacheVars>>

\* ------------------------------------------------------------------------
\* fetchWithRetry and fetchCurrentPrice
\* ------------------------------------------------------------------------
\* An attempt that throws: network error, status not ok, timeout, or a payload
\* whose parsing throws.
Throw == [throw |-> TRUE]

\* What the adapter of provider i (1..4) returns when it does not throw.
\* Only CoinCap reports the 24 h change.
AdapterResults(i) ==
  {[price |-> p, change24h |-> IF i = 1 THEN "2.31" ELSE "null", source |-> PROVIDERS[i]] :
     p \in ProviderPrices}

\* Mutant of fetchWithRetry: the first throw is rethrown, without retry.
fetchWithRetry_NoRetry(att, outcome) ==
  IF outcome # Throw THEN "return" ELSE "throw"

\* One turn of the loop of fetchWithRetry at attempt number att (from 0):
\* a result (an object, hence truthy) is returned; a throw is followed by
\* sleep(RETRY_DELAYS[att]) and one more attempt while att < MAX_RETRIES; after
\* the last attempt the error is rethrown.  A fetchFn that resolves with a
\* falsy value (Null) passes if (result) by and the loop goes on at once.
fetchWithRetry(att, outcome) ==
  IF outcome = Null THEN (IF att < MAX_RETRIES THEN "again" ELSE "throw")
  ELSE IF outcome # Throw THEN "return"
  ELSE IF att < MAX_RETRIES THEN "sleep"
  ELSE "throw"

\* result?.price is truthy.
PriceIsTruthy(result) == result.price # 0 /\ result.price # NaN

\* Mutant of NextProvider: one provider of the chain is passed over.
NextProvider_Skip(i) == i + 2

\* The provider tried after provider i.
NextProvider(i) == i + 1

\* Mutant of Catches: the last block has no catch.
Catches_NotLast(i) == i \in 1..(Len(PROVIDERS) - 1)

\* The block of provider i in fetchCurrentPrice is a try with a catch that
\* swallows what the block throws.
Catches(i) == i \in 1..Len(PROVIDERS)

\* An exception leaves fetchCurrentPrice: its promise rejects.
Reject ==
  /\ priceStatus' = "rejected"
  /\ priceEvent' = [type |-> "reject"]
  /\ UNCHANGED <<provider, attempt, priceResult, contacted>>

\* fetchCurrentPrice leaves the try block of provider i without a result and
\* enters the next one, whose first request goes out at once.
Abandon(cause) ==
  /\ provider' = NextProvider(provider)
  /\ attempt' = 0
  /\ contacted' = contacted \cup {NextProvider(provider)}
  /\ priceEvent' = [type |-> "abandon", provider |-> provider,
                    attempts |-> attempt + 1, cause |-> cause]
  /\ UNCHANGED <<priceStatus, priceResult>>

\* The request to one of the four direct providers settles.
AdapterSettles ==
  /\ priceStatus = "fetching"
  /\ provider \in 1..4
  /\ \E outcome \in {Throw} \cup AdapterResults(provider) :
       LET step == fetchWithRetry(attempt, outcome)
       IN CASE step = "sleep" ->
                 /\ priceStatus' = "sleeping"
                 /\ priceEvent' = [type |-> "sleep", ms |-> RETRY_DELAYS[attempt + 1]]
                 /\ UNCHANGED <<provider, attempt, priceResult, contacted>>
            [] step = "throw" -> IF Catches(provider) THEN Abandon("throw") ELSE Reject
            [] step = "return" /\ PriceIsTruthy(outcome) ->
                 /\ priceStatus' = "fulfilled"
                 /\ priceResult' = outcome
                 /\ priceEvent' = [type |-> "return"]
                 /\ UNCHANGED <<provider, attempt, contacted>>
            [] step = "return" /\ ~PriceIsTruthy(outcome) -> Abandon("falsy price")
  /\ UNCHANGED <<exposed, isFetching, storage, now, phase, histTask, cycleVars,
                 lastCall, raceVars, bucketVars, retryVars, cacheVars>>

\* sleep(RETRY_DELAYS[attempt]) is over: the next attempt starts.
SleepDone ==
  /\ priceStatus = "sleeping"
  /\ priceStatus' = "fetching"
  /\ attempt' = attempt + 1
  /\ priceEvent' = [type |-> "request"]
  /\ UNCHANGED <<provider, priceResult, contacted>>
  /\ UNCHANGED <<exposed, isFetching, storage, now, phase, histTask, cycleVars,
                 lastCall, raceVars, bucketVars, retryVars, cacheVars>>

\* How the CoinGecko block of fetchCurrentPrice can go: the relay race rejects
\* or reading data[coin] throws (Throw), data[coin] is missing (NoCoin), or
\* data[coin] is there and the result is built from it.
NoCoin == [nocoin |-> TRUE]
CoinGeckoOutcomes ==
  {Throw, NoCoin} \cup
  {[price |-> p, change24h |-> "-0.85", source |-> PROVIDERS[5]] : p \in ProviderPrices}

\* The relay race for the CoinGecko price settles: one attempt, no retry, and
\* the result is returned whatever its price.  Without a result the function
\* returns null.
CoinGeckoSettles ==
  /\ priceStatus = "fetching"
  /\ provider = 5
  /\ \E outcome \in CoinGeckoOutcomes :
       IF outcome = Throw /\ ~Catches(provider) THEN Reject
       ELSE /\ priceStatus' = "fulfilled"
            /\ priceResult' = IF outcome \in {Throw, NoCoin} THEN Null ELSE outcome
            /\ priceEvent' = [type |-> "return"]
            /\ UNCHANGED <<provider, attempt, contacted>>
  /\ UNCHANGED <<exposed, isFetching, storage, now, phase, histTask, cycleVars,
                 lastCall, raceVars, bucketVars, retryVars, cacheVars>>

\* ------------------------------------------------------------------------
\* fetchHistoricalData
\* ------------------------------------------------------------------------
\* The relay race for the chart rejects, or its body has no prices (both give
\* null), or the body is returned.
HistoryReturns == {Null} \cup {[prices |-> prices] : prices \in HistoryPayloads}

HistorySettles ==
  /\ histStatus = "pending"
  /\ histStatus' = "settled"
  /\ \E result \in HistoryReturns : histResult' = result
  /\ UNCHANGED <<exposed, isFetching, storage, now, phase, priceTask, cycleVars,
                 lastCall, priceEvent, raceVars, bucketVars, retryVars, cacheVars>>

\* ------------------------------------------------------------------------
\* fetchPriceData after the join
\* ------------------------------------------------------------------------
\* priceResult.status === 'fulfilled' && priceResult.value, pr being the value
\* (Null also when the promise rejected).
GotLivePrice(pr) == pr # Null

\* The historical branch ran to the end: a payload arrived and bucketing it
\* gave at least one month.
GotHistoricalData(hr) == hr # Null /\ Len(ProcessHistory(hr.prices)) > 0

\* Mutant of LatestHistoricalPrice: the first element is taken.
LatestHistoricalPrice_First(prices) ==
  [price |-> MathRound(prices[1].p, 1), change24h |-> "null"]

\* { price: Math.round(latestPrice[1]), change24h: null } for the last
\* element of historyData.prices.
LatestHistoricalPrice(prices) ==
  [price |-> MathRound(prices[Len(prices)].p, 1), change24h |-> "null"]

\* Mutant of FallbackCurrentPrice: the first month of the table is taken.
FallbackCurrentPrice_First ==
  [price |-> FALLBACK_PRICES[1].price, change24h |-> "null"]

\* { price: FALLBACK_PRICES[latestMonth], change24h: null }
FallbackCurrentPrice ==
  [price |-> FallbackPriceOf(LatestFallbackMonth), change24h |-> "null"]

\* Mutant of MergedPriceData: the payload is dropped when the price failed.
MergedPriceData_Tainted(hr) ==
  IF GotHistoricalData(hr) /\ priceResult # Null THEN ProcessHistory(hr.prices)
  ELSE FALLBACK_ARRAY

\* The series set by the try block: the bucketed payload, else the table.
MergedPriceData(hr) ==
  IF GotHistoricalData(hr) THEN ProcessHistory(hr.prices) ELSE FALLBACK_ARRAY

\* Mutant of MergedCurrentPrice: no substitute when no live price came.
MergedCurrentPrice_NoSubstitute(pr, hr) ==
  IF GotLivePrice(pr) THEN pr ELSE currentPrice

\* The current price set by the try block.
MergedCurrentPrice(pr, hr) ==
  IF GotLivePrice(pr) THEN pr
  ELSE IF GotHistoricalData(hr) THEN LatestHistoricalPrice(hr.prices)
  ELSE FallbackCurrentPrice

\* The provenance tag after the try block, ds being the tag before it.
MergedDataSource(ds, pr, hr) ==
  IF GotLivePrice(pr) THEN pr.source
  ELSE IF GotHistoricalData(hr) THEN ds
  ELSE "fallback"

\* Mutant of MergedIsLive: a cycle never takes isLive back.
MergedIsLive_Sticky(pr, hr) == isLive \/ GotLivePrice(pr) \/ GotHistoricalData(hr)

\* setIsLive(gotLivePrice || gotHistoricalData)
MergedIsLive(pr, hr) == GotLivePrice(pr) \/ GotHistoricalData(hr)

\* Mutant of Finally: the guard is not released.
Finally_KeepsGuard ==
  /\ loading' = FALSE
  /\ isFetching' = isFetching

\* The finally block.
Finally ==
  /\ loading' = FALSE
  /\ isFetching' = FALSE

\* Mutant of SaveToCacheThrows: what setItem throws leaves saveToCache.
SaveToCacheThrows_Propagates(setItemThrows) == setItemThrows

\* saveToCache wraps setItem in a try whose catch only logs: the call returns
\* normally whether or not setItem throws.
SaveToCacheThrows(setItemThrows) == FALSE

\* Mutant of CallsSaveToCache: a live price is saved even without a series.
CallsSaveToCache_OnLivePrice(hr) ==
  \/ priceResult # Null /\ (hr = Null \/ ~BucketingThrows(hr.prices))
  \/ /\ hr # Null
     /\ ~BucketingThrows(hr.prices)
     /\ GotHistoricalData(hr)

\* Mutant of CallsSaveToCache: nothing is saved without a live price.
CallsSaveToCache_NeedsLivePrice(hr) ==
  /\ hr # Null
  /\ ~BucketingThrows(hr.prices)
  /\ GotHistoricalData(hr)
  /\ priceResult # Null

\* The branch of the try block that ends with saveToCache is taken.
CallsSaveToCache(hr) ==
  /\ hr # Null
  /\ ~BucketingThrows(hr.prices)
  /\ GotHistoricalData(hr)

\* Whether localStorage.setItem throws (quota, storage disabled), which it can
\* only do in a cycle that calls it.
SetItemOutcomes(hr) == IF CallsSaveToCache(hr) THEN BOOLEAN ELSE {FALSE}

\* The body of the try block when nothing throws; setItemThrows tells how the
\* write to localStorage goes when the block reaches saveToCache.
TryBlock(setItemThrows) ==
  /\ priceData' = MergedPriceData(histResult)
  /\ currentPrice' = MergedCurrentPrice(priceResult, histResult)
  /\ dataSource' = MergedDataSource(dataSource, priceResult, histResult)
  /\ isLive' = MergedIsLive(priceResult, histResult)
  /\ lastUpdated' = [time |-> now]
  /\ error' = "null"
  /\ IF CallsSaveToCache(histResult)
       THEN /\ storage' = saveToCache(storage, MergedPriceData(histResult),
                                      IF GotLivePrice(priceResult) THEN priceResult
                                      ELSE LatestHistoricalPrice(histResult.prices),
                                      now, setItemThrows)
            /\ lastSave' = IF setItemThrows THEN "failed" ELSE "stored"
       ELSE /\ UNCHANGED storage
            /\ lastSave' = "none"

\* Mutant of CatchBlock: a live price set by the try block is kept.
CatchBlock_KeepsLivePrice ==
  /\ priceData' = FALLBACK_ARRAY
  /\ currentPrice' = IF GotLivePrice(priceResult) THEN priceResult ELSE FallbackCurrentPrice
  /\ isLive' = GotLivePrice(priceResult)
  /\ dataSource' = IF GotLivePrice(priceResult) THEN priceResult.source ELSE "fallback"
  /\ lastUpdated' = [time |-> now]
  /\ error' = "null"
  /\ lastSave' = "none"
  /\ UNCHANGED storage

\* Mutant of CatchBlock: the message of the exception is exposed.
CatchBlock_SetsError ==
  /\ priceData' = FALLBACK_ARRAY
  /\ currentPrice' = FallbackCurrentPrice
  /\ isLive' = FALSE
  /\ dataSource' = "fallback"
  /\ lastUpdated' = [time |-> now]
  /\ error' = "Complete failure"
  /\ lastSave' = "none"
  /\ UNCHANGED storage

\* The catch block.
CatchBlock ==
  /\ priceData' = FALLBACK_ARRAY
  /\ currentPrice' = FallbackCurrentPrice
  /\ isLive' = FALSE
  /\ dataSource' = "fallback"
  /\ lastUpdated' = [time |-> now]
  /\ error' = "null"
  /\ lastSave' = "none"
  /\ UNCHANGED storage

\* Both promises have settled: the rest of fetchPriceData runs in one turn of
\* the event loop.  An exception thrown in the try block (by the bucketing of
\* a malformed payload, or by a call the block makes) is caught.
Complete ==
  /\ inFlight > 0
  /\ priceStatus \in {"fulfilled", "rejected"}
  /\ histStatus = "settled"
  /\ \E setItemThrows \in SetItemOutcomes(histResult) :
       LET throws == \/ histResult # Null /\ BucketingThrows(histResult.prices)
                     \/ CallsSaveToCache(histResult) /\ SaveToCacheThrows(setItemThrows)
       IN /\ IF throws THEN CatchBlock ELSE TryBlock(setItemThrows)
          /\ path' = IF throws THEN "catch" ELSE "normal"
  /\ Finally
  /\ inFlight' = inFlight - 1
  /\ priceStatus' = "idle"
  /\ histStatus' = "idle"
  /\ provider' = 0
  /\ attempt' = 0
  /\ contacted' = {}
  /\ lastCall' = "none"
  /\ priceEvent' = [type |-> "none"]
  /\ UNCHANGED <<now, phase, priceResult, histResult, cycles, cacheReads, loaded,
                 raceVars, bucketVars, retryVars>>

ControllerNext ==
  \/ Hydrate
  \/ Mount
  \/ TimerTick
  \/ Refetch
  \/ Teardown
  \/ Tick
  \/ AdapterSettles
  \/ SleepDone
  \/ CoinGeckoSettles
  \/ HistorySettles
  \/ Complete

Next == ControllerNext

Spec == Init /\ [][Next]_vars

\* The controller when every request settles (each is bounded by
\* AbortSignal.timeout), every sleep elapses (setTimeout) and the continuation
\* of a settled Promise.allSettled runs.  The clock stands still and the
\* cache starts empty: neither decides whether a cycle ends.
SpecFairInit ==
  /\ ControllerInit
  /\ storage = Null
  /\ RaceIdle
  /\ BucketIdle

SpecFairNext ==
  \/ Hydrate
  \/ Mount
  \/ TimerTick
  \/ Refetch
  \/ Teardown
  \/ AdapterSettles
  \/ SleepDone
  \/ CoinGeckoSettles
  \/ HistorySettles
  \/ Complete

SpecFair ==
  /\ SpecFairInit
  /\ [][SpecFairNext]_vars
  /\ WF_vars(AdapterSettles)
  /\ WF_vars(SleepDone)
  /\ WF_vars(CoinGeckoSettles)
  /\ WF_vars(HistorySettles)
  /\ WF_vars(Complete)

\* ------------------------------------------------------------------------
\* fetchWithProxyRace on its own
\* ------------------------------------------------------------------------
\* Bodies a relay can deliver for the same URL.
Bodies == {"bodyA", "bodyB"}

\* How the request through one relay ends: the parsed body, or a rejection
\* (fetch fails, the status is not ok, the body is no JSON, or
\* AbortSignal.timeout fires).
RelayOutcomes ==
  {[state |-> "fulfilled", body |-> b] : b \in Bodies} \cup
  {[state |-> "rejected", reason |-> r] : r \in {"error", "timeout"}}

\* Mutant of PromiseAny: Promise.race, the first settlement decides.
PromiseAny_Race(cur, rel, i) ==
  IF cur.state # "pending" THEN cur
  ELSE IF rel[i].state = "fulfilled"
    THEN [state |-> "fulfilled", value |-> rel[i].body, winner |-> i]
  ELSE [state |-> "rejected"]

\* Promise.any: cur is its settlement so far, rel the relay promises after
\* relay i has settled.  The first fulfilment fulfils it; it rejects once all
\* have rejected; a settled promise never changes.
PromiseAny(cur, rel, i) ==
  IF cur.state # "pending" THEN cur
  ELSE IF rel[i].state = "fulfilled"
    THEN [state |-> "fulfilled", value |-> rel[i].body, winner |-> i]
  ELSE IF \A k \in DOMAIN rel : rel[k].state = "rejected"
    THEN [state |-> "rejected"]
  ELSE cur

SpecRaceInit ==
  /\ ControllerInit
  /\ storage = Null
  /\ RaceIdle
  /\ BucketIdle

\* CORS_PROXIES.map(async ...) sends the three requests in one turn.
RaceStart ==
  /\ race.state = "idle"
  /\ relays' = [i \in 1..Len(CORS_PROXIES) |-> [state |-> "pending"]]
  /\ race' = [state |-> "pending"]
  /\ arrivals' = <<>>
  /\ UNCHANGED <<controllerVars, bucketVars>>

\* The request through relay i settles.
RelaySettles ==
  \E i \in 1..Len(CORS_PROXIES) :
    /\ relays[i].state = "pending"
    /\ \E outcome \in RelayOutcomes :
         /\ relays' = [relays EXCEPT ![i] = outcome]
         /\ race' = PromiseAny(race, [relays EXCEPT ![i] = outcome], i)
    /\ arrivals' = Append(arrivals, i)
    /\ UNCHANGED <<controllerVars, bucketVars>>

SpecRaceNext ==
  \/ RaceStart
  \/ RelaySettles

SpecRace == SpecRaceInit /\ [][SpecRaceNext]_vars

\* ------------------------------------------------------------------------
\* Monthly bucketing on its own
\* ------------------------------------------------------------------------
\* Longest payload.
MaxSamples == 3

BucketTimestamps == {20231215, 20240105, 20240120, 20240210, 20241003}
BucketPrices == {43000, 43400, 43401, 52000}
BucketSamples == {S(ts, p) : ts \in BucketTimestamps, p \in BucketPrices}

\* The non-empty payloads of at most MaxSamples samples.
BucketInputs ==
  UNION {[1..n -> BucketSamples] : n \in 1..MaxSamples}

SpecBucketInit ==
  /\ ControllerInit
  /\ storage = Null
  /\ RaceIdle
  /\ bPrices \in BucketInputs
  /\ bRest = bPrices
  /\ bMonthly = <<>>
  /\ bProcessed = <<>>

\* One iteration of the forEach.
BucketStep ==
  /\ bRest # <<>>
  /\ bMonthly' = AddSample(bMonthly, Head(bRest))
  /\ bRest' = Tail(bRest)
  /\ UNCHANGED <<bPrices, bProcessed, controllerVars, raceVars>>

\* The loop is over: map and sort.
BucketFinish ==
  /\ bRest = <<>>
  /\ bProcessed = <<>>
  /\ bProcessed' = ToProcessed(bMonthly)
  /\ UNCHANGED <<bPrices, bRest, bMonthly, controllerVars, raceVars>>

SpecBucketNext ==
  \/ BucketStep
  \/ BucketFinish

SpecBucket == SpecBucketInit /\ [][SpecBucketNext]_vars

\* ------------------------------------------------------------------------
\* The cache store on its own
\* ------------------------------------------------------------------------
\* Calls of loadFromCache and steps of the clock.
MaxLoads == 2
MaxCacheTicks == 3

\* The arguments fetchPriceData can pass to saveToCache: the bucketed payload
\* with the value of the price chain (CoinGecko's may hold 0 or NaN) or with
\* the price of the last sample.
SaveInputs ==
  UNION {{[priceData |-> ProcessHistory(prices), currentPrice |-> cp] :
            cp \in {r \in AdapterResults(1) : PriceIsTruthy(r)}
                   \cup (CoinGeckoOutcomes \ {Throw, NoCoin})
                   \cup {LatestHistoricalPrice(prices)}} :
         prices \in DOMAIN BucketedPayloads}

SpecCacheInit ==
  /\ ControllerInit
  /\ storage \in {Null, Corrupt}
  /\ RaceIdle
  /\ BucketIdle

\* saveToCache(priceData, currentPrice)
CacheSave ==
  /\ \E d \in SaveInputs, setItemThrows \in BOOLEAN :
       /\ storage' = saveToCache(storage, d.priceData, d.currentPrice, now, setItemThrows)
       /\ lastSave' = IF setItemThrows THEN "failed" ELSE "stored"
  /\ UNCHANGED <<exposed, isFetching, now, phase, priceTask, histTask, cycleVars,
                 lastCall, priceEvent, cacheReads, loaded, raceVars, bucketVars, retryVars>>

\* loadFromCache(): no removeItem, no setItem.
CacheLoad ==
  /\ cacheReads < MaxLoads
  /\ cacheReads' = cacheReads + 1
  /\ loaded' = loadFromCache(storage, now)
  /\ lastSave' = "none"
  /\ UNCHANGED <<exposed, isFetching, storage, now, phase, priceTask, histTask,
                 cycleVars, lastCall, priceEvent, raceVars, bucketVars, retryVars>>

\* Time passes.
CacheTick ==
  /\ now < StartNow + MaxCacheTicks * TickMs
  /\ now' = now + TickMs
  /\ UNCHANGED <<exposed, isFetching, storage, phase, priceTask, histTask, cycleVars,
                 lastCall, priceEvent, cacheVars, raceVars, bucketVars, retryVars>>

SpecCacheNext ==
  \/ CacheSave
  \/ CacheLoad
  \/ CacheTick

SpecCache == SpecCacheInit /\ [][SpecCacheNext]_vars

\* ------------------------------------------------------------------------
\* fetchWithRetry on its own
\* ------------------------------------------------------------------------
\* How one call of fetchFn can end: it throws an error, it resolves with a
\* result, or it resolves with a falsy value.
RetryOutcomes ==
  {[kind |-> "throw", val |-> e] : e \in {"error1", "error2"}} \cup
  {[kind |-> "value", val |-> r] : r \in {"result1", "result2"}} \cup
  {[kind |-> "falsy", val |-> "null"]}

SpecRetryInit ==
  /\ ControllerInit
  /\ storage = Null
  /\ RaceIdle
  /\ BucketIdle

\* fetchWithRetry(fetchFn, apiName) is called: let lastError; attempt = 0 and
\* the first fetchFn() goes out.
RetryCall ==
  /\ rState = "idle"
  /\ rState' = "calling"
  /\ UNCHANGED <<rAttempt, rLastError, rValue, rTrace>>
  /\ UNCHANGED <<exposed, isFetching, storage, now, phase, priceTask, histTask, cycleVars,
                 lastCall, priceEvent, cacheVars, raceVars, bucketVars>>

\* await fetchFn() settles and the loop body runs up to its next await or to
\* the end of the call.
RetryAttemptSettles ==
  /\ rState = "calling"
  /\ \E o \in RetryOutcomes :
       LET step == fetchWithRetry(rAttempt, IF o.kind = "throw" THEN Throw
                                           ELSE IF o.kind = "falsy" THEN Null ELSE o)
           caught == IF o.kind = "throw" THEN o.val ELSE rLastError
           tried == Append(rTrace, [ev |-> "attempt", k |-> rAttempt, kind |-> o.kind,
                                    val |-> o.val, ms |-> 0])
       IN /\ rLastError' = caught
          /\ CASE step = "return" ->
                    /\ rState' = "returned"
                    /\ rValue' = o.val
                    /\ rTrace' = tried
                    /\ UNCHANGED rAttempt
               [] step = "sleep" ->
                    /\ rState' = "sleeping"
                    /\ rTrace' = Append(tried, [ev |-> "sleep", k |-> rAttempt, kind |-> "none",
                                                val |-> "none", ms |-> RETRY_DELAYS[rAttempt + 1]])
                    /\ UNCHANGED <<rAttempt, rValue>>
               [] step = "again" ->
                    /\ rState' = "calling"
                    /\ rAttempt' = rAttempt + 1
                    /\ rTrace' = tried
                    /\ UNCHANGED rValue
               [] step = "throw" ->
                    /\ rState' = "thrown"
                    /\ rValue' = caught
                    /\ rTrace' = tried
                    /\ UNCHANGED rAttempt
  /\ UNCHANGED <<exposed, isFetching, storage, now, phase, priceTask, histTask, cycleVars,
                 lastCall, priceEvent, cacheVars, raceVars, bucketVars>>

\* The sleep is over: attempt++ and the next fetchFn() goes out.
RetrySleepDone ==
  /\ rState = "sleeping"
  /\ rState' = "calling"
  /\ rAttempt' = rAttempt + 1
  /\ UNCHANGED <<rLastError, rValue, rTrace>>
  /\ UNCHANGED <<exposed, isFetching, storage, now, phase, priceTask, histTask, cycleVars,
                 lastCall, priceEvent, cacheVars, raceVars, bucketVars>>

SpecRetryNext ==
  \/ RetryCall
  \/ RetryAttemptSettles
  \/ RetrySleepDone

SpecRetry == SpecRetryInit /\ [][SpecRetryNext]_vars

\* ------------------------------------------------------------------------
\* Properties
\* ------------------------------------------------------------------------
\* Cycles that have run to the end of the finally block.
Completed == cycles - inFlight

\* The (year, month) a month key "yyyy-mm" names, read off its characters.
KeyYM(key) ==
  <<(key[1] - 48) * 1000 + (key[2] - 48) * 100 + (key[3] - 48) * 10 + (key[4] - 48),
    (key[6] - 48) * 10 + (key[7] - 48)>>

WellFormedKey(key) ==
  /\ Len(key) = 7
  /\ key[5] = 45
  /\ \A i \in {1, 2, 3, 4, 6, 7} : key[i] \in 48..57

\* Entry a comes before entry b in time.
Earlier(a, b) ==
  KeyYM(a.month)[1] * 12 + KeyYM(a.month)[2] < KeyYM(b.month)[1] * 12 + KeyYM(b.month)[2]

\* A series is strictly ascending by month.
Ascending(series) ==
  /\ \A k \in 1..Len(series) : WellFormedKey(series[k].month)
  /\ \A k \in 1..(Len(series) - 1) : Earlier(series[k], series[k + 1])

\* The series holds the properties of the fallback table, each once, in
\* ascending order of month.
IsFallbackSeries(series) ==
  /\ Len(series) = Len(FALLBACK_PRICES)
  /\ {series[k] : k \in 1..Len(series)} = {FALLBACK_PRICES[k] : k \in 1..Len(FALLBACK_PRICES)}
  /\ Ascending(series)

\* cp.price is the table's price of the month no other month follows.
IsLatestFallbackPrice(cp) ==
  \E i \in 1..Len(FALLBACK_PRICES) :
    /\ cp.price = FALLBACK_PRICES[i].price
    /\ \A j \in 1..Len(FALLBACK_PRICES) : ~Earlier(FALLBACK_PRICES[i], FALLBACK_PRICES[j])

\* C1: at most one body of fetchPriceData is in flight; no step taken while a
\* cycle runs starts another (fetchCurrentPrice and fetchHistoricalData are
\* not called again), and a call that arrives during a cycle returns at the
\* guard leaving the exposed state, the tasks and the cache as they were.
C1_AtMostOneCycle ==
  [][ /\ inFlight' <= 1
      /\ (isFetching => cycles' = cycles)
      /\ (lastCall' = "skip" /\ lastCall # "skip" =>
            /\ isFetching
            /\ UNCHANGED <<exposed, isFetching, storage, priceTask, histTask, cycleVars>>)
    ]_vars

\* A call was refused at the guard while the one cycle was running, though
\* the bound on cycles would have let another start.
C1_Witness ==
  /\ isFetching
  /\ inFlight = 1
  /\ lastCall = "skip"
  /\ cycles < MaxCycles

\* C2: once a cycle has completed, by whatever path, loading is false, the
\* series is not empty and there is a current price, in that state and in
\* every later one.
C2_NeverLoadingForever ==
  Completed >= 1 =>
    /\ loading = FALSE
    /\ priceData # <<>>
    /\ currentPrice # Null

\* A second cycle has completed, with every source failing.
C2_Witness ==
  /\ Completed >= 2
  /\ priceResult = Null
  /\ histResult = Null
  /\ loading = FALSE

RECURSIVE SamplesOf(_, _)
SamplesOf(prices, ym) ==
  IF prices = <<>> THEN <<>>
  ELSE IF <<Head(prices).t \div 10000, (Head(prices).t \div 100) % 100>> = ym
    THEN <<Head(prices).p>> \o SamplesOf(Tail(prices), ym)
  ELSE SamplesOf(Tail(prices), ym)

RECURSIVE SumOf(_)
SumOf(ps) == IF ps = <<>> THEN 0 ELSE Head(ps) + SumOf(Tail(ps))

\* C5: bucketing a non-empty payload gives one entry per (year, month) that
\* occurs in it, each with the mean of that month's samples rounded to the
\* nearest integer, in ascending order of month; the example of the
\* specification gives 2024-01: 43200, 2024-02: 52000.
C5_Bucketing ==
  bProcessed # <<>> =>
    LET yms == {<<bPrices[i].t \div 10000, (bPrices[i].t \div 100) % 100>> :
                  i \in 1..Len(bPrices)}
    IN /\ Ascending(bProcessed)
       /\ Len(bProcessed) = Cardinality(yms)
       /\ {KeyYM(bProcessed[k].month) : k \in 1..Len(bProcessed)} = yms
       /\ \A k \in 1..Len(bProcessed) :
            LET ps == SamplesOf(bPrices, KeyYM(bProcessed[k].month))
                d == 2 * Len(ps) * bProcessed[k].price - 2 * SumOf(ps)
            IN -Len(ps) <= d /\ d <= Len(ps)
       /\ (bPrices = <<S(20240105, 43000), S(20240120, 43400), S(20240210, 52000)>> =>
             bProcessed = <<[month |-> <<50, 48, 50, 52, 45, 48, 49>>, price |-> 43200],
                            [month |-> <<50, 48, 50, 52, 45, 48, 50>>, price |-> 52000]>>)

\* A payload with two samples in one month whose mean is a half, and a sample
\* of a two-digit month before it, has been bucketed.
C5_Witness ==
  /\ bProcessed # <<>>
  /\ bPrices = <<S(20241003, 52000), S(20240105, 43000), S(20240120, 43401)>>
  /\ Len(bProcessed) = 2

\* C6: the providers are tried one at a time in the order CoinCap, Binance,
\* Kraken, CryptoCompare, CoinGecko: the providers contacted in a cycle are
\* always the first ones of the chain up to the current one, a further
\* provider is contacted only in the step that abandons the current one, and
\* once a provider has yielded a price the result is that provider's and no
\* other provider is contacted until the cycle ends.
C6_ChainInOrder ==
  [][ /\ (priceStatus' # "idle" => contacted' = 1..provider')
      /\ (contacted' # contacted /\ priceStatus # "idle" /\ priceStatus' # "idle"
            /\ cycles' = cycles =>
            /\ priceStatus = "fetching"
            /\ contacted' = contacted \cup {provider + 1}
            /\ provider' = provider + 1
            /\ priceEvent'.type = "abandon"
            /\ priceEvent'.provider = provider)
      /\ (priceStatus' = "fulfilled" /\ priceResult' # Null =>
            /\ PriceIsTruthy(priceResult') \/ provider' = 5
            /\ priceResult'.source = PROVIDERS[provider'])
      /\ (priceStatus = "fulfilled" /\ cycles' = cycles =>
            contacted' \subseteq contacted /\ priceResult' = priceResult)
    ]_vars

\* Kraken, the third provider, has yielded the price after CoinCap and
\* Binance were abandoned; the last two were not contacted.
C6_Witness ==
  /\ priceStatus = "fulfilled"
  /\ priceResult # Null
  /\ priceResult.source = "kraken"
  /\ contacted = {1, 2, 3}

FirstFulfilled ==
  arrivals[CHOOSE n \in 1..Len(arrivals) :
             /\ relays[arrivals[n]].state = "fulfilled"
             /\ \A m \in 1..(n - 1) : relays[arrivals[m]].state # "fulfilled"]

\* C9: the race sends a request through each of the three relays at once; it
\* is fulfilled with the body of the relay that delivered first, whatever the
\* other relays do before or after, it is rejected exactly when all three
\* have failed, and it is pending otherwise.
C9_FirstSuccessWins ==
  race.state # "idle" =>
    /\ \A i \in 1..3 : relays[i].state # "idle"
    /\ (race.state = "fulfilled") =
         (\E i \in 1..3 : relays[i].state = "fulfilled")
    /\ (race.state = "fulfilled" =>
          race.winner = FirstFulfilled /\ race.value = relays[FirstFulfilled].body)
    /\ (race.state = "rejected") =
         (\A i \in 1..3 : relays[i].state = "rejected")

\* A relay failed first, then one delivered a body, then the third delivered
\* another body: the race holds the second relay's body.
C9_Witness ==
  /\ Len(arrivals) = 3
  /\ relays[arrivals[1]].state = "rejected"
  /\ relays[arrivals[2]].state = "fulfilled"
  /\ relays[arrivals[3]].state = "fulfilled"
  /\ relays[arrivals[2]].body # relays[arrivals[3]].body
  /\ race.state = "fulfilled"
  /\ race.value = relays[arrivals[2]].body

\* C10: both fetches of a cycle are started together and the exposed state
\* changes only in the step taken when both have settled; after a cycle that
\* ran its try block to the end, a live price with a failed historical fetch
\* gives that price and the fallback series, and a bucketable payload with a
\* failed price chain gives the bucketed payload.
C10_IndependentJoin ==
  [][ /\ (isFetching' /\ inFlight' = 1 => priceStatus' # "idle" /\ histStatus' # "idle")
      /\ (exposed' # exposed /\ phase # "unmounted" =>
            /\ priceStatus \in {"fulfilled", "rejected"}
            /\ histStatus = "settled"
            /\ inFlight' = inFlight - 1)
      /\ (inFlight' = 0 /\ path' = "normal" /\ priceResult' # Null /\ histResult' = Null =>
            /\ currentPrice' = priceResult'
            /\ IsFallbackSeries(priceData'))
      /\ (inFlight' = 0 /\ path' = "normal" /\ priceResult' = Null /\ histResult' # Null =>
            priceData' = ProcessHistory(histResult'.prices))
    ]_vars

\* A cycle ended in which CoinCap gave the price and the historical fetch
\* failed.
C10_Witness ==
  /\ inFlight = 0
  /\ path = "normal"
  /\ priceResult # Null
  /\ histResult = Null
  /\ currentPrice = priceResult
  /\ currentPrice.source = "coincap"
  /\ Len(priceData) = Len(FALLBACK_PRICES)

\* The stored item is a snapshot written by saveToCache.
IsSnapshot(item) == item # Null /\ item # Corrupt

\* C11: a call of loadFromCache made while the stored snapshot is younger
\* than 60 000 ms returns the snapshot's data, series and current price, as
\* they are stored, whatever saveToCache wrote and whenever.
C11_FreshSnapshotReturned ==
  [][ (cacheReads' = cacheReads + 1 /\ IsSnapshot(storage) /\ now - storage.timestamp < 60000) =>
        /\ loaded' # Null
        /\ loaded'.priceData = storage.data.priceData
        /\ loaded'.currentPrice = storage.data.currentPrice
    ]_vars

\* A snapshot written half a TTL ago was loaded.
C11_Witness ==
  /\ cacheReads >= 1
  /\ lastSave = "none"
  /\ IsSnapshot(storage)
  /\ now - storage.timestamp = TickMs
  /\ loaded = storage.data

\* C12: a call of loadFromCache made when the stored snapshot is 60 000 ms
\* old or older returns null and leaves the item in storage as it was; the
\* stored item changes only in a step in which saveToCache stored a new one.
C12_ExpiredIgnoredAndKept ==
  [][ /\ (cacheReads' = cacheReads + 1 /\ IsSnapshot(storage) /\ now - storage.timestamp >= 60000 =>
            /\ loaded' = Null
            /\ storage' = storage)
      /\ (storage' # storage => lastSave' = "stored" /\ storage'.timestamp = now)
    ]_vars

\* A snapshot exactly one TTL old was loaded, gave null, and is still stored.
C12_Witness ==
  /\ cacheReads >= 1
  /\ lastSave = "none"
  /\ IsSnapshot(storage)
  /\ now - storage.timestamp = CACHE_TTL
  /\ loaded = Null

\* C13 as stated: every cycle whose historical fetch returned a payload ends
\* with a snapshot of the cycle's series in the cache, stamped with the time
\* of the write.
C13_Original ==
  [][ (inFlight' = inFlight - 1 /\ histResult # Null) =>
        /\ IsSnapshot(storage')
        /\ storage'.timestamp = now
        /\ storage'.data.priceData = priceData'
    ]_vars

\* C13: a cycle whose historical fetch returned a payload and which did not
\* end in the catch block calls saveToCache, with or without a live price;
\* when setItem accepts the write the stored item is afterwards a snapshot of
\* the cycle's series stamped with the time of the write, whatever was stored
\* before, and when setItem throws the item stays as it was.
C13_SaveOnHistory ==
  [][ (inFlight' = inFlight - 1 /\ histResult # Null /\ path' = "normal") =>
        /\ lastSave' \in {"stored", "failed"}
        /\ (lastSave' = "stored" =>
              /\ IsSnapshot(storage')
              /\ storage'.timestamp = now
              /\ storage'.data.priceData = priceData'
              /\ priceData' # <<>>)
        /\ (lastSave' = "failed" => storage' = storage)
    ]_vars

\* A second cycle without a live price replaced the snapshot of the first.
C13_Witness ==
  /\ Completed = 2
  /\ inFlight = 0
  /\ path = "normal"
  /\ priceResult = Null
  /\ histResult # Null
  /\ lastSave = "stored"
  /\ IsSnapshot(storage)
  /\ storage.timestamp = StartNow + TickMs
  /\ storage.data.priceData = priceData

\* The payload holds only [timestamp, price] pairs.
WellFormed(hr) == \A i \in 1..Len(hr.prices) : hr.prices[i] # Null

\* C14: a cache item that cannot be read or parsed makes loadFromCache
\* return null and hydration change nothing, as with an empty cache; and a
\* cycle that received a well-formed historical payload ends in the try
\* block with the bucketed payload, the live price or else the price of the
\* last sample, isLive true and error null, whether setItem stored the
\* snapshot or threw.
C14_CacheFailureSwallowed ==
  [][ /\ (cacheReads' = cacheReads + 1 /\ storage = Corrupt =>
            /\ loaded' = Null
            /\ UNCHANGED <<exposed, storage>>
            /\ phase' = "hydrated")
      /\ (inFlight' = inFlight - 1 /\ histResult # Null /\ WellFormed(histResult) =>
            /\ lastSave' \in {"stored", "failed"}
            /\ path' = "normal"
            /\ priceData' = ProcessHistory(histResult.prices)
            /\ currentPrice' = IF priceResult # Null THEN priceResult
                               ELSE [price |-> histResult.prices[Len(histResult.prices)].p,
                                     change24h |-> "null"]
            /\ isLive' = TRUE
            /\ error' = "null"
            /\ loading' = FALSE
            /\ isFetching' = FALSE)
    ]_vars

\* The item could not be parsed at hydration, and the write of the first
\* cycle failed too: the cycle still ended with live data.
C14_Witness ==
  /\ cacheReads = 1
  /\ loaded = Null
  /\ storage = Corrupt
  /\ Completed >= 1
  /\ inFlight = 0
  /\ lastSave = "failed"
  /\ path = "normal"
  /\ isLive
  /\ priceData = ProcessHistory(histResult.prices)
  /\ error = "null"

\* C15: the exposed error is null in every reachable state, before mount,
\* during a cycle and after a cycle that ended by the try block or by the
\* catch block.
C15_ErrorAlwaysNull == error = "null"

\* Two cycles have ended, the last one in the catch block after a malformed
\* payload.
C15_Witness ==
  /\ Completed = 2
  /\ inFlight = 0
  /\ path = "catch"
  /\ histResult # Null
  /\ ~WellFormed(histResult)
  /\ IsFallbackSeries(priceData)
  /\ error = "null"

\* The names a provider puts in the source field of its result.
ProviderNames == {PROVIDERS[i] : i \in 1..Len(PROVIDERS)}

\* C16 as stated: after a completed cycle lastUpdated is set and dataSource
\* is 'cache', a provider name or 'fallback' and names the origin of the
\* current price of that cycle: the provider that gave it, 'fallback' only
\* for the table's price, and no tag of an earlier cycle or of hydration next
\* to a price that came from neither.
C16_Original ==
  (Completed >= 1 /\ inFlight = 0) =>
    /\ lastUpdated # Null
    /\ dataSource \in {"cache", "fallback"} \cup ProviderNames
    /\ (priceResult # Null /\ path = "normal" => dataSource = priceResult.source)
    /\ (dataSource \in ProviderNames => currentPrice = priceResult)
    /\ (dataSource = "fallback" => IsLatestFallbackPrice(currentPrice))
    /\ (dataSource = "cache" => loaded # Null /\ currentPrice = loaded.currentPrice)

\* The first cycle of a controller that found no fresh snapshot ended with
\* the price of the last historical sample and no provenance tag at all.
C16_Witness ==
  /\ Completed = 1
  /\ inFlight = 0
  /\ loaded = Null
  /\ path = "normal"
  /\ priceResult = Null
  /\ histResult # Null
  /\ currentPrice = [price |-> histResult.prices[Len(histResult.prices)].p, change24h |-> "null"]
  /\ lastUpdated # Null
  /\ dataSource = "null"

\* C17: in every reachable state the exposed series is strictly ascending by
\* month: each key is a yyyy-mm key and names an earlier month than the next
\* one, so no month occurs twice.
C17_SortedNoDuplicates == Ascending(priceData)

\* A payload whose samples arrived out of order, two of them in the same
\* month, was bucketed into two ascending months.
C17_Witness ==
  /\ Completed >= 1
  /\ inFlight = 0
  /\ path = "normal"
  /\ histResult # Null
  /\ histResult.prices[1].t > histResult.prices[2].t
  /\ Len(histResult.prices) = 3
  /\ Len(priceData) = 2
  /\ Earlier(priceData[1], priceData[2])

\* C18: when requests settle and sleeps elapse, a cycle that has started
\* completes; while it runs no provider is past its fourth attempt and the
\* chain is never past its fifth provider; the step that completes it, by the
\* try block or by the catch block, releases the guard; and a trigger that
\* finds the guard released starts a cycle.
C18_CycleTerminates ==
  /\ [](attempt \in 0..3 /\ provider \in 0..5 /\ inFlight \in {0, 1})
  /\ [][inFlight' = inFlight - 1 => isFetching /\ ~isFetching' /\ path' \in {"normal", "catch"}]_vars
  /\ [][(lastCall' \in {"start", "skip"} /\ lastCall' # lastCall /\ ~isFetching) =>
          lastCall' = "start" /\ cycles' = cycles + 1 /\ isFetching']_vars
  /\ (isFetching ~> ~isFetching)
  /\ (inFlight = 1 ~> inFlight = 0)

\* After a cycle that ended in the catch block, a second cycle is running and
\* its chain has reached the last attempt of the fourth provider.
C18_Witness ==
  /\ cycles = 2
  /\ inFlight = 1
  /\ isFetching
  /\ lastUpdated # Null
  /\ IsFallbackSeries(priceData)
  /\ provider = 4
  /\ attempt = MAX_RETRIES

\* C19: the interval callback can run exactly while the controller is
\* mounted: it is not armed before the mount effects have run, it is armed in
\* every mounted state (the bound on cycles aside), where it calls
\* fetchPriceData, and it is gone after teardown, from when on no step starts
\* a cycle or calls the trigger.
C19_TimerFollowsMount ==
  /\ [](phase \in {"unmounted", "hydrated", "torn"} => ~ENABLED TimerTick)
  /\ [](phase = "mounted" /\ (isFetching \/ cycles < MaxCycles) => ENABLED TimerTick)
  /\ [][phase = "torn" => phase' = "torn" /\ cycles' = cycles /\ lastCall' \in {lastCall, "none"}]_vars
  /\ [][(phase = "mounted" /\ phase' = "mounted" /\ lastCall' \in {"start", "skip"} /\ lastCall' # lastCall) =>
          IF isFetching THEN lastCall' = "skip" /\ cycles' = cycles
          ELSE lastCall' = "start" /\ cycles' = cycles + 1]_vars

\* The controller was torn down after its first cycle had completed: the
\* guard is released and the bound would allow a cycle, but none can start.
C19_Witness ==
  /\ phase = "torn"
  /\ Completed = 1
  /\ ~isFetching
  /\ cycles < MaxCycles
  /\ ~ENABLED TimerTick

\* C20: loadFromCache is called once, by the first mount effect and before
\* any cycle has started; that step sends no request and leaves the guard,
\* the tasks and the stored item alone; with a stored snapshot younger than
\* 60 000 ms it sets the series and the current price to the snapshot's,
\* loading to false, isLive to true and dataSource to 'cache', and otherwise
\* it leaves the exposed state as constructed; without a fresh snapshot
\* loading is true as long as no cycle has completed.
C20_HydrationOnce ==
  /\ [](cacheReads \in {0, 1} /\ (cacheReads = 1 <=> phase # "unmounted")
                               /\ (cacheReads = 0 => cycles = 0))
  /\ [][cacheReads' # cacheReads =>
          /\ cycles = 0 /\ priceStatus = "idle" /\ histStatus = "idle"
          /\ UNCHANGED <<isFetching, storage, priceTask, histTask, cycleVars, lastCall, priceEvent>>
          /\ IF IsSnapshot(storage) /\ now - storage.timestamp < 60000
               THEN /\ priceData' = storage.data.priceData
                    /\ currentPrice' = storage.data.currentPrice
                    /\ loading' = FALSE
                    /\ isLive' = TRUE
                    /\ dataSource' = "cache"
               ELSE /\ UNCHANGED exposed
                    /\ loading' = TRUE /\ priceData' = <<>> /\ currentPrice' = Null
                    /\ isLive' = FALSE /\ dataSource' = "null"]_vars
  /\ [](cacheReads = 1 /\ loaded = Null /\ Completed = 0 => loading = TRUE)
  /\ [](loaded # Null => loading = FALSE)

\* Hydrated from a snapshot half a TTL old, the controller shows the
\* snapshot while its first cycle is still waiting for CoinCap.
C20_Witness ==
  /\ cacheReads = 1
  /\ loaded # Null
  /\ phase = "mounted"
  /\ cycles = 1
  /\ Completed = 0
  /\ priceStatus = "fetching"
  /\ provider = 1
  /\ priceData = loaded.priceData
  /\ currentPrice = loaded.currentPrice
  /\ loading = FALSE
  /\ isLive = TRUE
  /\ dataSource = "cache"
  /\ lastUpdated = Null

\* C21: in a call of fetchWithRetry, a throw of attempt k = 0, 1, 2 is
\* followed by one sleep of 1000, 2000, 4000 ms and then by attempt k + 1;
\* nothing is slept except after such a throw; an attempt that resolves with
\* a result is the last event and the call returns that result; a throw of
\* attempt 3 is the last event and the call throws that attempt's error; no
\* call makes more than four attempts.
C21_BackoffSchedule ==
  /\ rAttempt \in 0..3
  /\ \A i \in 1..Len(rTrace) :
       LET e == rTrace[i]
       IN /\ (e.ev = "attempt" /\ e.kind = "throw" /\ e.k < 3 =>
                /\ i < Len(rTrace)
                /\ rTrace[i + 1].ev = "sleep"
                /\ rTrace[i + 1].ms = <<1000, 2000, 4000>>[e.k + 1]
                /\ (i + 1 < Len(rTrace) =>
                      rTrace[i + 2].ev = "attempt" /\ rTrace[i + 2].k = e.k + 1)
                /\ (i + 1 = Len(rTrace) => rState \in {"sleeping", "calling"}))
          /\ (e.ev = "sleep" => i > 1 /\ rTrace[i - 1].kind = "throw" /\ rTrace[i - 1].k < 3)
          /\ (e.ev = "attempt" /\ e.kind = "value" =>
                i = Len(rTrace) /\ rState = "returned" /\ rValue = e.val)
          /\ (e.ev = "attempt" /\ e.kind = "throw" /\ e.k = 3 =>
                i = Len(rTrace) /\ rState = "thrown" /\ rValue = e.val)
          /\ (e.ev = "attempt" => e.k \in 0..3)

\* Four attempts threw, with three sleeps between them, and the call threw
\* the error of the fourth, which is not the error of the first.
C21_Witness ==
  /\ rState = "thrown"
  /\ Len(rTrace) = 7
  /\ \A i \in {1, 3, 5, 7} : rTrace[i].kind = "throw"
  /\ <<rTrace[2].ms, rTrace[4].ms, rTrace[6].ms>> = <<1000, 2000, 4000>>
  /\ rTrace[1].val = "error1"
  /\ rTrace[7].val = "error2"
  /\ rValue = "error2"

\* C22: after a cycle that ended in the catch block, the series is the
\* fallback table in ascending order, the current price is the table's price
\* of its latest month with no 24 h change, isLive is false, dataSource is
\* 'fallback', error is null, loading is false and the guard is released,
\* whether or not the price chain of that cycle had returned a price.
C22_ExceptionGivesFallback ==
  (inFlight = 0 /\ path = "catch") =>
    /\ IsFallbackSeries(priceData)
    /\ currentPrice # Null
    /\ IsLatestFallbackPrice(currentPrice)
    /\ currentPrice.change24h = "null"
    /\ isLive = FALSE
    /\ dataSource = "fallback"
    /\ error = "null"
    /\ loading = FALSE
    /\ isFetching = FALSE
    /\ lastUpdated # Null

\* A cycle in which CoinCap gave a price and the historical payload was
\* malformed ended in the catch block, on a controller hydrated from cache.
C22_Witness ==
  /\ inFlight = 0
  /\ path = "catch"
  /\ loaded # Null
  /\ priceResult # Null
  /\ priceResult.source = "coincap"
  /\ histResult # Null
  /\ ~WellFormed(histResult)
  /\ currentPrice.price = 71000
  /\ dataSource = "fallback"

\* C23 as stated: a cycle that stores a snapshot stores the series and the
\* price and 24 h change of the current price that are exposed when the
\* cycle has completed, so that a hydration from the stored item gives those
\* values back.
C23_Original ==
  [][ (inFlight' = inFlight - 1 /\ lastSave' = "stored") =>
        /\ IsSnapshot(storage')
        /\ storage'.data.priceData = priceData'
        /\ storage'.data.currentPrice.price = currentPrice'.price
        /\ storage'.data.currentPrice.change24h = currentPrice'.change24h
        /\ loadFromCache(storage', now).currentPrice.price = currentPrice'.price
    ]_vars

\* A cycle took CoinGecko's result, whose price is NaN, as the current price
\* and stored a snapshot whose price is null.
C23_Witness ==
  /\ inFlight = 0
  /\ path = "normal"
  /\ lastSave = "stored"
  /\ priceResult # Null
  /\ priceResult.source = "coingecko"
  /\ currentPrice.price = NaN
  /\ IsSnapshot(storage)
  /\ storage.data.priceData = priceData
  /\ storage.data.currentPrice.price = NullNum

\* C24: a cycle whose historical fetch gave nothing, or which ended in the
\* catch block, does not call saveToCache and leaves the stored item as it
\* was; no stored snapshot and no hydrated series is ever the fallback table.
C24_FallbackNeverCached ==
  /\ [][(inFlight' = inFlight - 1 /\ (histResult = Null \/ path' = "catch")) =>
          lastSave' = "none" /\ storage' = storage]_vars
  /\ [](IsSnapshot(storage) => ~IsFallbackSeries(storage.data.priceData))
  /\ [](loaded # Null => ~IsFallbackSeries(loaded.priceData))
  /\ [](dataSource = "cache" => ~IsFallbackSeries(priceData))

\* A cycle with a live price and no historical data showed the fallback table
\* and left the snapshot of an earlier session in the cache.
C24_Witness ==
  /\ inFlight = 0
  /\ path = "normal"
  /\ priceResult # Null
  /\ histResult = Null
  /\ lastSave = "none"
  /\ IsFallbackSeries(priceData)
  /\ IsSnapshot(storage)
  /\ storage.timestamp < StartNow
  /\ storage.data.priceData # priceData

\* C25: after a completed cycle isLive is true exactly when the cycle ended
\* by the try block and its price chain returned a result or its historical
\* fetch returned a payload; it is false after a cycle in which both gave
\* nothing and after a cycle that ended in the catch block, whatever isLive
\* was before the cycle.
C25_IsLiveIffAnySuccess ==
  (Completed >= 1 /\ inFlight = 0) =>
    (isLive <=> (path = "normal" /\ (priceResult # Null \/ histResult # Null)))

\* Hydration from a fresh snapshot had set isLive; the first cycle, in which
\* every source failed, took it back.
C25_Witness ==
  /\ loaded # Null
  /\ Completed = 1
  /\ inFlight = 0
  /\ path = "normal"
  /\ priceResult = Null
  /\ histResult = Null
  /\ isLive = FALSE
  /\ dataSource = "fallback"
====
